---- MODULE Spec2Model ----
(***************************************************************************)
(* A model of the tool-orchestration core of light-jarvis:                 *)
(*   - the MCP orchestrator server (tool registry, /tools/execute          *)
(*     dispatcher, OAuth2 callback coordination),                          *)
(*   - the GoogleAuthManager that blocks on the server's callback wait,    *)
(*   - the JarvisAssistant conversation engine and the /chat endpoints of  *)
(*     the main orchestrator server,                                       *)
(*   - the NotificationClient reminder map and its worker thread.          *)
(* The server object is the record `server`; its fields carry the names of *)
(* the attributes of MCPOrchestratorServer.  Request handlers run on one   *)
(* asyncio event loop: a handler runs atomically from one await that       *)
(* really suspends to the next, so every action below is one such segment. *)
(***************************************************************************)
EXTENDS Naturals, Sequences, FiniteSets, TLC

\* Number of concurrent auth request tasks (/auth/init, /auth/google).
MaxTasks == 2
\* Number of /oauth2/callback requests delivered in one behaviour.
MaxDeliveries == 2

TaskIds == 1..MaxTasks

VARIABLES
    server,            \* the MCPOrchestratorServer instance (record of its fields)
    managers,          \* GoogleAuthManager instances, keyed by the task that built them
    tasks,             \* the request tasks running on the event loop
    token_file,        \* config.token_file on disk: "none" | "valid" | "expired"
    credentials_file,  \* os.path.exists(config.credentials_file)
    timers,            \* pending wait_for timeouts, earliest deadline first
    deliveries,        \* number of /oauth2/callback requests handled so far
    returned,          \* history: how many waits returned each delivery
    last_exec,         \* history: the last POST /tools/execute and its response
    conversation_history,  \* JarvisAssistant.conversation_history
    turns,             \* the /chat and /chat/stream requests in flight on the assistant
    assistant,         \* MainOrchestratorServer.assistant is not None
    scheduled_reminders,   \* NotificationClient.scheduled_reminders (dict entries)
    running,           \* NotificationClient.running
    reminder_thread,   \* NotificationClient.reminder_thread and its position
    caller,            \* the event-loop thread inside schedule_reminder
    now,               \* datetime.now()
    reminders          \* history: what became of each reminder id

authVars == <<server, managers, tasks, token_file, credentials_file, timers,
              deliveries, returned>>

engineVars == <<conversation_history, turns, assistant>>

reminderVars == <<scheduled_reminders, running, reminder_thread, caller, now,
                  reminders>>

vars == <<server, managers, tasks, token_file, credentials_file, timers,
          deliveries, returned, last_exec, conversation_history, turns,
          assistant, scheduled_reminders, running, reminder_thread, caller, now,
          reminders>>

(***************************************************************************)
(* Python dict, as a function on its current key set.                      *)
(***************************************************************************)
EmptyDict == [k \in {} |-> k]

DictSet(d, k, v) == [x \in (DOMAIN d) \cup {k} |-> IF x = k THEN v ELSE d[x]]

\* A stored value: its text, and the callback delivery that wrote it
\* (from = 0 for a value no callback wrote).
Val(text, from) == [text |-> text, from |-> from]

\* The deliveries whose values a result map holds.
Froms(d) == {d[k].from : k \in DOMAIN d} \ {0}

(***************************************************************************)
(* NotificationClient: the reminder map and its worker thread.  The worker *)
(* is a threading.Thread, so its statements interleave with those of the   *)
(* event-loop thread that runs schedule_reminder and cancel_reminder.      *)
(***************************************************************************)
\* The clock runs from 0 to MaxTime.
MaxTime == 2
\* Number of reminder ids.
MaxReminders == 2

ReminderIds == 1..MaxReminders
RemindTimes == 0..MaxTime

\* scheduled_reminders is a dict: a key stored for the first time takes a
\* new entry at the end, a deleted key leaves its entry empty, and an
\* iterator walks the entries.
Entry(id, remind_at) == [id |-> id, remind_at |-> remind_at, live |-> TRUE]

\* len(d)
Used(d) == Cardinality({k \in 1..Len(d) : d[k].live})

\* id in d
HasKey(d, id) == \E k \in 1..Len(d) : d[k].live /\ d[k].id = id

\* del d[id]
DelItem(d, id) ==
    [k \in 1..Len(d) |->
        IF d[k].live /\ d[k].id = id THEN [d[k] EXCEPT !.live = FALSE] ELSE d[k]]

\* d[id] = {..., "remind_at": remind_at, ...}
SetItem(d, id, remind_at) ==
    IF HasKey(d, id)
    THEN [k \in 1..Len(d) |->
             IF d[k].live /\ d[k].id = id THEN Entry(id, remind_at) ELSE d[k]]
    ELSE Append(d, Entry(id, remind_at))

NoItem == [id |-> 0, remind_at |-> 0]

\* The worker thread: where it is in _reminder_worker, and its locals
\* (current_time, expired_reminders, the iterator of the for loop and the
\* item it yielded).
NoThread == [pc |-> "none", current_time |-> 0, expired |-> <<>>,
             it_used |-> 0, it_pos |-> 0, it_len |-> 0, item |-> NoItem]

\* Thread.is_alive()
IsAlive(thread) == thread.pc \notin {"none", "dead"}

\* NotificationClient._start_reminder_thread
StartReminderThread(r, thread) ==
    IF ~IsAlive(thread)
    THEN [running |-> TRUE, thread |-> [NoThread EXCEPT !.pc = "test"]]
    ELSE [running |-> r, thread |-> thread]

\* The `while` test of _reminder_worker; a pass begins with the clock read
\* and the iterator of scheduled_reminders.items().
WorkerLoopTest(r, d, clock) ==
    IF r /\ Used(d) > 0
    THEN [NoThread EXCEPT !.pc = "next", !.current_time = clock,
                          !.it_used = Used(d), !.it_len = Used(d)]
    ELSE [NoThread EXCEPT !.pc = "exiting"]

\* The exception handler of the worker: log, time.sleep(60).
WorkerError == [NoThread EXCEPT !.pc = "error_sleep"]

\* The for loop asks its iterator for the next item: RuntimeError when the
\* dict changed size (or holds more keys than when the loop began).
WorkerIterNext(w, d) ==
    LET later == {k \in (w.it_pos + 1)..Len(d) : d[k].live}
        k == CHOOSE x \in later : \A y \in later : x <= y
    IN IF w.it_used # Used(d) THEN WorkerError
       ELSE IF later = {} THEN [NoThread EXCEPT !.pc = "remove", !.expired = w.expired]
       ELSE IF w.it_len = 0 THEN WorkerError
       ELSE [w EXCEPT !.it_pos = k, !.it_len = @ - 1,
                      !.item = [id |-> d[k].id, remind_at |-> d[k].remind_at],
                      !.pc = IF w.current_time >= d[k].remind_at
                             THEN "send" ELSE "next"]

\* for reminder_id in expired_reminders: del self.scheduled_reminders[...]
\* (KeyError when the key is gone).
RECURSIVE RemoveExpired(_, _)
RemoveExpired(d, ids) ==
    IF ids = <<>> THEN [dict |-> d, raised |-> FALSE]
    ELSE IF ~HasKey(d, Head(ids)) THEN [dict |-> d, raised |-> TRUE]
    ELSE RemoveExpired(DelItem(d, Head(ids)), Tail(ids))

NewReminder == [fate |-> "unused", sent |-> 0, cancelled |-> "no"]

\* NotificationClient.__init__
InitReminders ==
    /\ scheduled_reminders = <<>>
    /\ running = FALSE
    /\ reminder_thread = NoThread
    /\ caller = [pc |-> "idle", id |-> 0]
    /\ now = 0
    /\ reminders = [id \in ReminderIds |-> NewReminder]

(***************************************************************************)
(* Tool definitions published by the handlers (get_tool_definitions).      *)
(***************************************************************************)
ToolDef(name, description) == [name |-> name, description |-> description]

GmailDefs == <<ToolDef("gmail_read_emails", "Read emails from Gmail"),
               ToolDef("gmail_send_email", "Send an email via Gmail")>>
CalendarDefs == <<ToolDef("calendar_list_events", "List calendar events")>>
NotificationDefs == <<ToolDef("send_notification", "Send a system notification")>>
HueDefs == <<ToolDef("hue_list_lights", "List lights")>>

\* A store that appends to the registry whatever it holds.
DictStore_Append(reg, spec) == Append(reg, spec)

\* self.tools_registry[name] = tool_def on a dict that keeps insertion order:
\* an existing key keeps its position and gets the new value.
DictStore(reg, spec) ==
    IF \E i \in 1..Len(reg) : reg[i].name = spec.name
    THEN [i \in 1..Len(reg) |-> IF reg[i].name = spec.name THEN spec ELSE reg[i]]
    ELSE Append(reg, spec)

RECURSIVE StoreAll(_, _)
StoreAll(reg, defs) ==
    IF defs = <<>> THEN reg
    ELSE StoreAll(DictStore(reg, Head(defs)), Tail(defs))

\* MCPOrchestratorServer._register_tools
RegisterTools(srv) ==
    LET r1 == IF srv.gmail_tool THEN StoreAll(srv.tools_registry, GmailDefs)
              ELSE srv.tools_registry
        r2 == IF srv.calendar_tool THEN StoreAll(r1, CalendarDefs) ELSE r1
        r3 == IF srv.notification_tool THEN StoreAll(r2, NotificationDefs) ELSE r2
        r4 == IF srv.hue_tool THEN StoreAll(r3, HueDefs) ELSE r3
    IN [srv EXCEPT !.tools_registry = r4]

(***************************************************************************)
(* The state the auth handlers work on, bundled so that a handler segment  *)
(* is a function from bundle to bundle.                                    *)
(***************************************************************************)
St == [server |-> server, managers |-> managers, tasks |-> tasks,
       token_file |-> token_file, timers |-> timers, returned |-> returned]

Apply(s) ==
    /\ server' = s.server
    /\ managers' = s.managers
    /\ tasks' = s.tasks
    /\ token_file' = s.token_file
    /\ timers' = s.timers
    /\ returned' = s.returned

\* The handler of task t returns its HTTP response.
Finish(s, t, resp) ==
    [s EXCEPT !.tasks[t] = [pc |-> "done", kind |-> @.kind, stage |-> "none",
                            mgr |-> 0, seen |-> 0, startD |-> 0, last |-> @.last,
                            resp |-> resp]]

\* {"error": "OAuth callback timeout"}
TimeoutResult == DictSet(EmptyDict, "error", Val("OAuth callback timeout", 0))

\* A wait_for_oauth_callback that creates its Event without clearing the box.
WaitBegin_KeepResults(s, t) ==
    [s EXCEPT !.server.oauth_event = t,
              !.tasks[t].pc = "blocked",
              !.tasks[t].seen = 0,
              !.tasks[t].startD = deliveries,
              !.timers = Append(@, t)]

\* A wait_for_oauth_callback that returns at once what the box already holds.
WaitBegin_ObservesStored(s, t) ==
    IF s.server.oauth_results # EmptyDict
    THEN [s EXCEPT !.server.oauth_event = t,
                   !.tasks[t].pc = "signalled",
                   !.tasks[t].seen = 0,
                   !.tasks[t].startD = deliveries]
    ELSE [s EXCEPT !.server.oauth_event = t,
                   !.tasks[t].pc = "blocked",
                   !.tasks[t].seen = 0,
                   !.tasks[t].startD = deliveries,
                   !.timers = Append(@, t)]

\* wait_for_oauth_callback up to its await: a fresh Event replaces
\* self.oauth_event and the result box is cleared.
WaitBegin(s, t) ==
    [s EXCEPT !.server.oauth_event = t,
              !.server.oauth_results = EmptyDict,
              !.tasks[t].pc = "blocked",
              !.tasks[t].seen = 0,
              !.tasks[t].startD = deliveries,
              !.timers = Append(@, t)]

\* The value wait_for_oauth_callback returns when task t resumes.
WaitResult(s, t) ==
    IF s.tasks[t].pc = "signalled" THEN s.server.oauth_results ELSE TimeoutResult

\* A finally block that drops the Event and leaves the result box as it is.
WaitFinally_KeepResults(s) == [s EXCEPT !.server.oauth_event = 0]

\* The finally block of wait_for_oauth_callback.
WaitFinally(s) ==
    [s EXCEPT !.server.oauth_event = 0, !.server.oauth_results = EmptyDict]

\* asyncio.Lock.release of manager m's _auth_lock.
ReleaseLock(s, m) == [s EXCEPT !.managers[m].locked = FALSE]

RECURSIVE Authenticate(_, _, _, _, _)

\* /auth/google after the (optional) _initialize_auth: authenticate with the
\* server's current manager, or fail with HTTP 500 when there is none.
GoogleAfterInit(s, t, in) ==
    IF s.server.google_auth = 0
    THEN Finish(s, t, "http500")
    ELSE Authenticate(s, t, s.server.google_auth, "auth", in)

\* What follows a call of authenticate() that returned `success`.
AfterAuthenticate(s, t, success, in) ==
    IF s.tasks[t].stage = "auth"
    THEN Finish(s, t, IF success THEN "success" ELSE "failed")
    ELSE IF s.tasks[t].kind = "auth_init"
         THEN Finish(s, t, "success")
         ELSE GoogleAfterInit(s, t, in)

\* authenticate() returns True: credentials and services are set.
AuthSucceed(s, t, in) ==
    LET m == s.tasks[t].mgr
    IN AfterAuthenticate(
           ReleaseLock([s EXCEPT !.managers[m].authed = TRUE], m), t, TRUE, in)

\* authenticate() returns False.
AuthFail(s, t, in) ==
    AfterAuthenticate(ReleaseLock(s, s.tasks[t].mgr), t, FALSE, in)

\* GoogleAuthManager._perform_oauth_flow up to the callback wait.
PerformOAuthFlow(s, t, in) ==
    IF ~credentials_file THEN AuthFail(s, t, in) ELSE WaitBegin(s, t)

\* The body of authenticate() under the lock.
AuthBody(s, t, in) ==
    IF s.token_file = "valid"
    THEN AuthSucceed(s, t, in)
    ELSE IF s.token_file = "expired" /\ in.refresh_ok
         THEN AuthSucceed([s EXCEPT !.token_file = "valid"], t, in)
         ELSE PerformOAuthFlow(s, t, in)

\* GoogleAuthManager.authenticate on manager m: take the lock or queue for it.
Authenticate(s, t, m, stage, in) ==
    LET s1 == [s EXCEPT !.tasks[t].mgr = m, !.tasks[t].stage = stage]
    IN IF ~s1.managers[m].locked /\ s1.managers[m].waiters = <<>>
       THEN AuthBody([s1 EXCEPT !.managers[m].locked = TRUE], t, in)
       ELSE [s1 EXCEPT !.managers[m].waiters = Append(@, t),
                       !.tasks[t].pc = "lockwait"]

\* What follows _initialize_auth when it did not start authenticate().
AfterInit(s, t, in) ==
    IF s.tasks[t].kind = "auth_init"
    THEN Finish(s, t, "success")
    ELSE GoogleAfterInit(s, t, in)

\* MCPOrchestratorServer._initialize_auth; in.fail names the statement that
\* raises ("config": JarvisConfig(), "hue": HueTool(...), "none").
InitializeAuth(s, t, in) ==
    IF in.fail = "config"
    THEN AfterInit([s EXCEPT !.server.auth_initialized = FALSE], t, in)
    ELSE LET s1 == [s EXCEPT !.server.google_auth = t,
                             !.server.gmail_tool = TRUE,
                             !.server.calendar_tool = TRUE,
                             !.server.notification_tool = TRUE]
         IN IF in.fail = "hue"
            THEN AfterInit([s1 EXCEPT !.server.auth_initialized = FALSE], t, in)
            ELSE LET s2 == [s1 EXCEPT
                              !.server = [RegisterTools([@ EXCEPT !.hue_tool = TRUE])
                                             EXCEPT !.auth_initialized = TRUE]]
                 IN IF credentials_file
                    THEN Authenticate(s2, t, t, "init", in)
                    ELSE AfterInit(s2, t, in)

\* The outcomes of the external calls a handler segment makes.
Inputs == [fail : {"none", "config", "hue"}, refresh_ok : BOOLEAN, fetch_ok : BOOLEAN]
InitInputs == {in \in Inputs : ~in.fetch_ok}
LockInputs == {in \in Inputs : in.fail = "none" /\ ~in.fetch_ok}
ResumeInputs == {in \in Inputs : in.fail = "none"}

(***************************************************************************)
(* Actions of the auth coordinator.                                        *)
(***************************************************************************)

\* Requests are numbered in the order they arrive.
IsNextTask(t) ==
    /\ tasks[t].pc = "new"
    /\ \A u \in TaskIds : u < t => tasks[u].pc # "new"

\* POST /auth/init (and start_server's background _initialize_auth task).
AuthInitRequest(t) ==
    /\ IsNextTask(t)
    /\ \E in \in InitInputs :
         Apply(InitializeAuth([St EXCEPT !.tasks[t].kind = "auth_init"], t, in))
    /\ UNCHANGED <<credentials_file, deliveries, last_exec>>
    /\ UNCHANGED <<engineVars, reminderVars>>

\* POST /auth/google.
AuthGoogleRequest(t) ==
    /\ IsNextTask(t)
    /\ \E in \in InitInputs :
         LET s0 == [St EXCEPT !.tasks[t].kind = "auth_google"]
         IN Apply(IF ~server.auth_initialized
                  THEN InitializeAuth(s0, t, in)
                  ELSE GoogleAfterInit(s0, t, in))
    /\ UNCHANGED <<credentials_file, deliveries, last_exec>>
    /\ UNCHANGED <<engineVars, reminderVars>>

\* A task queued on a manager's lock is woken and takes the lock.
LockGrant(t) ==
    /\ tasks[t].pc = "lockwait"
    /\ LET m == tasks[t].mgr
       IN /\ ~managers[m].locked
          /\ managers[m].waiters # <<>>
          /\ Head(managers[m].waiters) = t
          /\ \E in \in LockInputs :
               Apply(AuthBody([St EXCEPT !.managers[m].locked = TRUE,
                                         !.managers[m].waiters = Tail(@),
                                         !.tasks[t].pc = "running"], t, in))
    /\ UNCHANGED <<credentials_file, deliveries, last_exec>>
    /\ UNCHANGED <<engineVars, reminderVars>>

\* The values the /oauth2/callback handler stores for one request.
CallbackStore(res, kind, d) ==
    IF kind = "error"
    THEN DictSet(res, "error", Val("access_denied", d))
    ELSE IF kind = "code"
         THEN DictSet(DictSet(res, "code", Val("code", d)), "state", Val("state", d))
         ELSE DictSet(res, "error", Val("No authorization code received", d))

\* GET /oauth2/callback: store the result, set the current event if any.
OAuthCallback(kind) ==
    /\ deliveries < MaxDeliveries
    /\ deliveries' = deliveries + 1
    /\ server' = [server EXCEPT
                    !.oauth_results = CallbackStore(@, kind, deliveries + 1)]
    /\ LET e == server.oauth_event
           woken == IF e # 0 /\ tasks[e].pc = "blocked" THEN {e} ELSE {}
       IN /\ tasks' = [t \in TaskIds |->
                         LET r1 == IF tasks[t].pc = "blocked" /\ tasks[t].seen = 0
                                   THEN [tasks[t] EXCEPT !.seen = deliveries + 1]
                                   ELSE tasks[t]
                         IN IF t \in woken THEN [r1 EXCEPT !.pc = "signalled"] ELSE r1]
          /\ timers' = SelectSeq(timers, LAMBDA t : t \notin woken)
    /\ UNCHANGED <<managers, token_file, credentials_file, returned, last_exec>>
    /\ UNCHANGED <<engineVars, reminderVars>>

\* The timeout of asyncio.wait_for fires for the waiter with the earliest deadline.
TimeoutFire(t) ==
    /\ timers # <<>>
    /\ Head(timers) = t
    /\ tasks[t].pc = "blocked"
    /\ tasks' = [tasks EXCEPT ![t].pc = "timedout"]
    /\ timers' = Tail(timers)
    /\ UNCHANGED <<server, managers, token_file, credentials_file, deliveries,
                   returned, last_exec>>
    /\ UNCHANGED <<engineVars, reminderVars>>

\* A released waiter resumes: wait_for_oauth_callback returns, then
\* _perform_oauth_flow and authenticate() run to their end.
ResumeWaiter(t) ==
    /\ tasks[t].pc \in {"signalled", "timedout"}
    /\ \E in \in ResumeInputs :
         LET r == WaitResult(St, t)
             s1 == [WaitFinally(St) EXCEPT
                      !.returned = [d \in DOMAIN @ |->
                                      IF d \in Froms(r) THEN @[d] + 1 ELSE @[d]],
                      !.tasks[t].pc = "running",
                      !.tasks[t].last = IF tasks[t].pc = "timedout"
                                        THEN "timeout" ELSE "delivered"]
         IN Apply(IF "code" \in DOMAIN r /\ in.fetch_ok
                  THEN AuthSucceed([s1 EXCEPT !.token_file = "valid"], t, in)
                  ELSE AuthFail(s1, t, in))
    /\ UNCHANGED <<credentials_file, deliveries, last_exec>>
    /\ UNCHANGED <<engineVars, reminderVars>>

(***************************************************************************)
(* Tool registry and dispatcher.                                           *)
(***************************************************************************)

\* Python strings: str.startswith and the `in` test on substrings.
StartsWith(s, p) == Len(s) >= Len(p) /\ SubSeq(s, 1, Len(p)) = p

Contains(s, sub) ==
    \E i \in 1..(Len(s) + 1) :
        i + Len(sub) - 1 <= Len(s) /\ SubSeq(s, i, i + Len(sub) - 1) = sub

\* A dict a handler returns: its items in insertion order; str(dict).
Item(k, text, isstr) == [k |-> k, text |-> text, isstr |-> isstr]

PyRepr(it) ==
    "'" \o it.k \o "': " \o (IF it.isstr THEN "'" \o it.text \o "'" ELSE it.text)

RECURSIVE PyItems(_)
PyItems(items) ==
    IF items = <<>> THEN ""
    ELSE IF Len(items) = 1 THEN PyRepr(items[1])
         ELSE PyRepr(items[1]) \o ", " \o PyItems(Tail(items))

PyStr(items) == "{" \o PyItems(items) \o "}"

\* {"status": "error", "message": msg}
StatusError(msg) == <<Item("status", "error", TRUE), Item("message", msg, TRUE)>>

\* What a tool handler's execute() does with a call; the handlers are
\* external collaborators, so the outcome is an input.
HandlerOutcomes == {"returns_ok", "returns_failure", "raises"}
HandlerErrorText == "boom"
HandlerOkDict == <<Item("success", "True", FALSE)>>
HandlerFailureDict ==
    <<Item("success", "False", FALSE), Item("error", HandlerErrorText, TRUE)>>

NotificationNames ==
    {"send_notification", "schedule_reminder", "cancel_reminder", "list_reminders"}

\* The branch of _execute_tool a tool name takes.
Route(tool_name) ==
    IF StartsWith(tool_name, "gmail_") THEN "gmail"
    ELSE IF StartsWith(tool_name, "calendar_") THEN "calendar"
    ELSE IF tool_name \in NotificationNames THEN "notification"
    ELSE IF StartsWith(tool_name, "hue_") THEN "hue"
    ELSE "none"

\* The handler instance of a branch (None when not initialized).
Handler(srv, route) ==
    IF route = "gmail" THEN srv.gmail_tool
    ELSE IF route = "calendar" THEN srv.calendar_tool
    ELSE IF route = "notification" THEN srv.notification_tool
    ELSE IF route = "hue" THEN srv.hue_tool
    ELSE FALSE

NotInitializedText(route) ==
    IF route = "gmail" THEN "Gmail tool not initialized"
    ELSE IF route = "calendar" THEN "Calendar tool not initialized"
    ELSE IF route = "notification" THEN "Notification tool not initialized"
    ELSE "Hue tool not initialized"

\* Whether _execute_tool, once called, reaches a handler's execute().
HandlerInvoked(srv, tool_name) == Handler(srv, Route(tool_name))

\* MCPOrchestratorServer._execute_tool: the dict it returns.  Its own
\* try/except turns a raising handler into an error dict.
PrivateExecuteTool(srv, tool_name, outcome) ==
    LET route == Route(tool_name)
    IN IF route = "none" THEN StatusError("Unknown tool: " \o tool_name)
       ELSE IF ~Handler(srv, route) THEN StatusError(NotInitializedText(route))
       ELSE IF outcome = "raises" THEN StatusError(HandlerErrorText)
       ELSE IF outcome = "returns_failure" THEN HandlerFailureDict
       ELSE HandlerOkDict

RegisteredNames(srv) == {srv.tools_registry[i].name : i \in 1..Len(srv.tools_registry)}

\* The HTTP response of /tools/execute: a ToolResult (status 200), or an
\* exception that left the handler (escaped, status 500).
NoError == "<None>"

ToolResult(tool_call_id, content, success, error) ==
    [status |-> 200, escaped |-> FALSE, tool_call_id |-> tool_call_id,
     content |-> content, success |-> success, error |-> error]

Escaped(text) ==
    [status |-> 500, escaped |-> TRUE, tool_call_id |-> "", content |-> "",
     success |-> FALSE, error |-> text]

\* str(HTTPException(status_code=404, detail=...))
HttpNotFoundText(tool_name) == "404: Tool '" \o tool_name \o "' not found"

\* The try body of execute_tool: a ToolResult, or the exception it raises.
ExecuteToolBody_NoRegistryCheck(srv, call, outcome) ==
    [raised |-> FALSE, text |-> "", invoked |-> HandlerInvoked(srv, call.name),
     value |-> ToolResult(call.id, PyStr(PrivateExecuteTool(srv, call.name, outcome)),
                          TRUE, NoError)]

ExecuteToolBody(srv, call, outcome) ==
    IF call.name \notin RegisteredNames(srv)
    THEN [raised |-> TRUE, text |-> HttpNotFoundText(call.name), invoked |-> FALSE,
          value |-> ToolResult(call.id, "", FALSE, NoError)]
    ELSE [raised |-> FALSE, text |-> "", invoked |-> HandlerInvoked(srv, call.name),
          value |-> ToolResult(call.id,
                               PyStr(PrivateExecuteTool(srv, call.name, outcome)),
                               TRUE, NoError)]

\* execute_tool without its except clause.
ExecuteToolEndpoint_NoCatch(srv, call, outcome) ==
    LET r == ExecuteToolBody(srv, call, outcome)
    IN IF r.raised THEN Escaped(r.text) ELSE r.value

\* execute_tool whose except clause forgets the request id.
ExecuteToolEndpoint_DropsId(srv, call, outcome) ==
    LET r == ExecuteToolBody(srv, call, outcome)
    IN IF r.raised THEN ToolResult("default", "", FALSE, r.text) ELSE r.value

\* POST /tools/execute: execute_tool with its except Exception clause.
ExecuteToolEndpoint(srv, call, outcome) ==
    LET r == ExecuteToolBody(srv, call, outcome)
    IN IF r.raised THEN ToolResult(call.id, "", FALSE, r.text) ELSE r.value

\* Whether this /tools/execute request called a handler's execute().
ExecuteInvokes(srv, call, outcome) == ExecuteToolBody(srv, call, outcome).invoked

\* MCPOrchestratorClient.execute_tool: the JSON payload it posts.
ClientPayload(tool_name, arguments, tool_call_id) ==
    [id |-> tool_call_id, name |-> tool_name, arguments |-> arguments]

\* MCPServer.register_tool
register_tool(srv, tool_config) ==
    [srv EXCEPT !.tools_registry = DictStore(@, tool_config)]

\* GET /tools
ListTools(srv) == [tools |-> srv.tools_registry]

\* GET /health
HealthCheck(srv) ==
    [status |-> "healthy",
     tools_count |-> Len(srv.tools_registry),
     auth_initialized |-> srv.auth_initialized,
     google_authenticated |->
         IF srv.google_auth # 0 THEN managers[srv.google_auth].authed ELSE FALSE]

NoExec == [called |-> FALSE, call |-> ClientPayload("", EmptyDict, ""),
           outcome |-> "returns_ok", registered |-> FALSE, handler |-> FALSE,
           invoked |-> FALSE,
           response |-> ToolResult("", "", FALSE, NoError)]

(***************************************************************************)
(* The conversation engine: JarvisAssistant, served by /chat and           *)
(* /chat/stream of the main orchestrator.  OllamaClient.chat calls the     *)
(* blocking ollama client, so a model call never suspends the handler; the *)
(* handler suspends at the MCP client's HTTP calls and at each token it    *)
(* yields to the streaming response.                                       *)
(***************************************************************************)
\* Number of /chat and /chat/stream requests in one behaviour.
MaxTurns == 2
\* Longest tool_calls list of a model response.
MaxCalls == 2

TurnIds == 1..MaxTurns

Message(role, content) == [role |-> role, content |-> content]

\* config/prompt.txt
SystemPrompt == "You are Jarvis"

ToolCall(id, name, arguments) == [id |-> id, name |-> name, arguments |-> arguments]

\* The k-th entry of message.tool_calls in a raw model response: a name the
\* registry does not know at the odd positions, a registered tool at the
\* even ones.  The backend sends an "id" key with every entry or with none.
RawToolCall(k, with_id) ==
    [has_id |-> with_id,
     id |-> IF k % 2 = 1 THEN "call_1" ELSE "call_2",
     name |-> IF k % 2 = 1 THEN "unknown_tool" ELSE "gmail_read_emails",
     arguments |-> EmptyDict]

\* OllamaClient._parse_response: id = tool_call.get("id", "")
ModelToolCall(raw) ==
    ToolCall(IF raw.has_id THEN raw.id ELSE "", raw.name, raw.arguments)

\* The tool_calls lists a model response can carry.
ToolCallLists ==
    {[k \in 1..n |-> ModelToolCall(RawToolCall(k, with_id))] :
        n \in 0..MaxCalls, with_id \in BOOLEAN}

\* The model's answer as the backend streams it: message.content of each
\* chunk, empty chunks included.
ModelChunks == {<<"Hel", "", "lo">>}

RECURSIVE Concat(_)
Concat(seq) == IF seq = <<>> THEN "" ELSE Head(seq) \o Concat(Tail(seq))

NonEmpty(content) == content # ""

\* A stream that ends at the first empty chunk.
StreamTokens_StopsAtEmpty(chunks) ==
    IF \E k \in 1..Len(chunks) : chunks[k] = ""
    THEN SubSeq(chunks, 1, (CHOOSE k \in 1..Len(chunks) :
                               chunks[k] = "" /\ \A j \in 1..(k - 1) : chunks[j] # "") - 1)
    ELSE chunks

\* OllamaClient.chat_stream: only non-empty content is yielded.
StreamTokens(chunks) == SelectSeq(chunks, NonEmpty)

\* What a model call does: it raises, or returns the answer with tool calls
\* (chat) or chunk by chunk (chat_stream).
ModelOutputs == [fails : BOOLEAN, tool_calls : ToolCallLists, chunks : ModelChunks]

\* message.content of the non-streaming response: the whole answer.
ChatContent(out) == Concat(out.chunks)

\* What the handler of a tool the engine calls does.
EngineOutcomes == {"returns_ok", "raises"}

UserInputs == {"Hello", "Check my email"}
ChatInputs == {"Check my email"}

LowerChar(c) ==
    CASE c = "A" -> "a" [] c = "B" -> "b" [] c = "C" -> "c" [] c = "D" -> "d"
      [] c = "E" -> "e" [] c = "F" -> "f" [] c = "G" -> "g" [] c = "H" -> "h"
      [] c = "I" -> "i" [] c = "J" -> "j" [] c = "K" -> "k" [] c = "L" -> "l"
      [] c = "M" -> "m" [] c = "N" -> "n" [] c = "O" -> "o" [] c = "P" -> "p"
      [] c = "Q" -> "q" [] c = "R" -> "r" [] c = "S" -> "s" [] c = "T" -> "t"
      [] c = "U" -> "u" [] c = "V" -> "v" [] c = "W" -> "w" [] c = "X" -> "x"
      [] c = "Y" -> "y" [] c = "Z" -> "z" [] OTHER -> c

\* str.lower()
RECURSIVE Lower(_)
Lower(s) ==
    IF Len(s) = 0 THEN ""
    ELSE LowerChar(SubSeq(s, 1, 1)) \o Lower(SubSeq(s, 2, Len(s)))

Keywords == <<"email", "calendar", "schedule", "send", "check", "create",
              "event", "events", "meeting", "meetings", "next", "upcoming",
              "today", "tomorrow", "list", "show", "tell", "notification",
              "reminder", "reminders", "hue", "lights", "light", "color",
              "brightness", "turn on", "turn off">>

\* process_command_stream's heuristic for offering the tools to the model.
NeedsTools(user_input) ==
    \E k \in 1..Len(Keywords) : Contains(Lower(user_input), Keywords[k])

\* JarvisAssistant._convert_tools_for_llm; None is the empty list.
ConvertToolsForLlm(mcp_tools) ==
    [k \in 1..Len(mcp_tools) |->
        [type |-> "function",
         function |-> [name |-> mcp_tools[k].name,
                       description |-> mcp_tools[k].description]]]

\* The Tool message appended after an execution.
ToolMessage(tool_call, result) ==
    Message("tool", "Tool '" \o tool_call.name \o "' result: " \o result.content)

\* The request MCPOrchestratorClient.execute_tool posts for a tool call.
PayloadOf(tool_call) == ClientPayload(tool_call.name, tool_call.arguments, tool_call.id)

\* What the caller of a turn got: nothing yet, the answer, or an error.
NoResult == [status |-> "none", response |-> "", error |-> ""]
Answer(text) == [status |-> "ok", response |-> text, error |-> ""]
Failure(text) == [status |-> "error", response |-> "", error |-> text]

\* An HTTP response of the main orchestrator: status code and JSON body.
HttpResponse(status_code, body) == [status_code |-> status_code, body |-> body]
NoResponse == HttpResponse(0, [detail |-> ""])

\* The ChatResponse model: response, success, error (Optional, default None).
ChatResponse(response, success, error) ==
    [response |-> response, success |-> success, error |-> error]

\* POST /chat: the answer is returned as a ChatResponse, and every exception,
\* the handler's own HTTPException(503) included, is caught and returned as
\* a ChatResponse too.
ChatEndpoint(result) ==
    IF result.status = "ok"
    THEN HttpResponse(200, ChatResponse(result.response, TRUE, NoError))
    ELSE HttpResponse(200, ChatResponse("", FALSE, result.error))

\* POST /chat/stream: an exception raised before the StreamingResponse is
\* returned becomes HTTPException(500); the generator runs after the
\* response has started with status 200.
ChatStreamEndpoint(result) ==
    IF result.error = "503: Assistant not initialized"
    THEN HttpResponse(500, [detail |-> result.error])
    ELSE HttpResponse(200, [detail |-> ""])

\* The response of the endpoint that serves a turn of the given kind.
EndpointResponse(kind, result) ==
    IF result.status = "none" THEN NoResponse
    ELSE IF kind = "chat" THEN ChatEndpoint(result)
    ELSE ChatStreamEndpoint(result)

OllamaFailedText == "Ollama request failed"
OllamaStreamFailedText == "Ollama streaming request failed"
TransportFailedText == "Cannot connect to host"

NewTurn == [pc |-> "new", kind |-> "none", user_input |-> "", tool_calls |-> <<>>,
            offered |-> FALSE, i |-> 0, sent |-> <<>>, appended |-> 0, calls |-> 0,
            answer |-> <<>>, full_response |-> "", yielded |-> <<>>,
            pending |-> <<>>, result |-> NoResult, http |-> NoResponse,
            user_at |-> 0, contexts |-> <<>>]

\* The history and one turn, bundled: a handler segment maps bundle to bundle.
Eng(h, tr) == [history |-> h, turn |-> tr]

\* The synthetic User instructions of the summarising calls.
SummaryPrompt == "Please provide a summary of the results."
StreamSummaryPrompt == "Please provide a summary of the results in a natural way."

\* A summarising call that is given the history alone.
SummaryContext_NoInstruction(e) == e.history

\* The messages argument of the call made after the tool loop.
SummaryContext(e) ==
    Append(e.history,
           Message("user", IF e.turn.kind = "chat" THEN SummaryPrompt
                           ELSE StreamSummaryPrompt))

\* The turn makes a model call (chat or chat_stream) with these messages.
ModelCalled(e, messages) ==
    [e EXCEPT !.turn.calls = @ + 1, !.turn.contexts = Append(@, messages)]

\* The model call returns the answer the turn will give.
Answered(e, out, messages) ==
    [ModelCalled(e, messages) EXCEPT !.turn.answer = out.chunks]

\* An engine that writes the failure of a turn into the history.
EndTurn_RecordsFailure(e, pc, result) ==
    [e EXCEPT !.turn.pc = pc, !.turn.result = result, !.turn.i = 0,
              !.turn.pending = <<>>,
              !.turn.http = EndpointResponse(e.turn.kind, result),
              !.history = IF pc = "failed"
                          THEN Append(@, Message("assistant", "Error: " \o result.error))
                          ELSE @]

\* The turn ends: the handler returns or the exception leaves it.
EndTurn(e, pc, result) ==
    [e EXCEPT !.turn.pc = pc, !.turn.result = result, !.turn.i = 0,
              !.turn.pending = <<>>,
              !.turn.http = EndpointResponse(e.turn.kind, result)]

\* The Assistant message written over the last message of the history.
AppendAssistant_ReplacesLast(e, content) ==
    EndTurn([e EXCEPT !.history[Len(e.history)] = Message("assistant", content)],
            "done", Answer(content))

\* Append the Assistant message and return it.
AppendAssistant(e, content) ==
    EndTurn([e EXCEPT !.history = Append(@, Message("assistant", content))],
            "done", Answer(content))

\* async for token in chat_stream(...): the stream is opened and read up to
\* the first token, which is yielded; an empty stream ends the loop at once.
BeginStream(e, out, messages) ==
    LET e1 == ModelCalled(e, messages)
        tokens == StreamTokens(out.chunks)
    IN IF out.fails THEN EndTurn(e1, "failed", Failure(OllamaStreamFailedText))
       ELSE IF tokens = <<>> THEN AppendAssistant(Answered(e, out, messages), "")
       ELSE [Answered(e, out, messages) EXCEPT !.turn.pc = "streaming", !.turn.i = 0,
                       !.turn.full_response = Head(tokens),
                       !.turn.yielded = <<Head(tokens)>>,
                       !.turn.pending = Tail(tokens)]

\* The consumer asks for the next token.
StreamStep(e) ==
    IF e.turn.pending = <<>> THEN AppendAssistant(e, e.turn.full_response)
    ELSE [e EXCEPT !.turn.full_response = @ \o Head(e.turn.pending),
                   !.turn.yielded = Append(@, Head(e.turn.pending)),
                   !.turn.pending = Tail(@)]

\* The for loop over tool_calls sends call number k, or is over.
SendCall(e, k) ==
    [e EXCEPT !.turn.pc = "executing", !.turn.i = k,
              !.turn.sent = Append(@, PayloadOf(e.turn.tool_calls[k]))]

\* The model call that follows the tool loop.
AfterToolLoop(e, out) ==
    IF e.turn.kind = "chat"
    THEN IF out.fails
         THEN EndTurn(ModelCalled(e, SummaryContext(e)), "failed",
                      Failure(OllamaFailedText))
         ELSE AppendAssistant(Answered(e, out, SummaryContext(e)), ChatContent(out))
    ELSE BeginStream(e, out, SummaryContext(e))

\* for tool_call in llm_response.tool_calls: the index of the next call.
ToolLoopNext_StopOnFailure(k, result) == IF result.success THEN k + 1 ELSE MaxCalls + 2

ToolLoopNext(k, result) == k + 1

\* The first model call of a turn, made with the tools offered.
\* A streaming turn whose first call returned no tool calls makes a second
\* model call, chat_stream, whose outcome is out2.
FirstModelCall(e, out, out2) ==
    LET e1 == ModelCalled(e, e.history)
    IN IF out.fails THEN EndTurn(e1, "failed", Failure(OllamaFailedText))
       ELSE IF out.tool_calls # <<>>
            THEN SendCall([e1 EXCEPT !.turn.tool_calls = out.tool_calls], 1)
       ELSE IF e.turn.kind = "chat"
            THEN AppendAssistant(Answered(e, out, e.history), ChatContent(out))
       ELSE BeginStream(e1, out2, e.history)

\* The segment that runs when list_tools returns.
AfterListTools(e, tools, out, out2) ==
    LET llm_tools == ConvertToolsForLlm(tools)
    IN IF e.turn.kind = "chat" \/ (llm_tools # <<>> /\ NeedsTools(e.turn.user_input))
       THEN FirstModelCall([e EXCEPT !.turn.offered = llm_tools # <<>>], out, out2)
       ELSE BeginStream(e, out, e.history)

\* A client that also raises on a ToolResult with success = false.
ClientRaises_OnFailedResult(response) == response.status >= 400 \/ ~response.success

\* MCPOrchestratorClient.execute_tool: raise_for_status on the response.
ClientRaises(response) == response.status >= 400

\* The segment that runs when execute_tool returns a result.
AfterExecuteTool(e, result, out) ==
    LET k == e.turn.i
        e1 == [e EXCEPT !.history = Append(@, ToolMessage(e.turn.tool_calls[k], result)),
                        !.turn.appended = @ + 1]
        n == ToolLoopNext(k, result)
    IN IF n <= Len(e.turn.tool_calls) THEN SendCall(e1, n)
       ELSE AfterToolLoop(e1, out)

NewTask == [pc |-> "new", kind |-> "none", stage |-> "none", mgr |-> 0,
            seen |-> 0, startD |-> 0, last |-> "none", resp |-> "none"]

NewServer == [tools_registry |-> <<>>,
              gmail_tool |-> FALSE, calendar_tool |-> FALSE,
              notification_tool |-> FALSE, hue_tool |-> FALSE,
              google_auth |-> 0, auth_initialized |-> FALSE,
              oauth_results |-> EmptyDict, oauth_event |-> 0]

InitAuth ==
    /\ server = NewServer
    /\ managers = [m \in TaskIds |-> [locked |-> FALSE, waiters |-> <<>>, authed |-> FALSE]]
    /\ tasks = [t \in TaskIds |-> NewTask]
    /\ token_file \in {"none", "valid", "expired"}
    /\ credentials_file \in BOOLEAN
    /\ timers = <<>>
    /\ deliveries = 0
    /\ returned = [d \in 1..MaxDeliveries |-> 0]
    /\ last_exec = NoExec
    /\ conversation_history = <<>>
    /\ turns = [t \in TurnIds |-> NewTurn]
    /\ assistant = FALSE
    /\ InitReminders

NextAuth ==
    \/ \E t \in TaskIds : AuthInitRequest(t)
    \/ \E t \in TaskIds : AuthGoogleRequest(t)
    \/ \E t \in TaskIds : LockGrant(t)
    \/ \E k \in {"error", "code", "none"} : OAuthCallback(k)
    \/ \E t \in TaskIds : TimeoutFire(t)
    \/ \E t \in TaskIds : ResumeWaiter(t)

SpecAuth == InitAuth /\ [][NextAuth]_vars

(***************************************************************************)
(* Actions of the registry and dispatcher.                                 *)
(***************************************************************************)
RegNames == {"gmail_read_emails", "tool1"}
RegSpecs == {ToolDef(n, d) : n \in RegNames, d \in {"Read emails", "A test tool"}}

ExecNames == {"gmail_read_emails", "send_notification", "hue_list_lights",
              "tool1", "unknown_tool"}
ExecIds == {"call_123", "call_456"}
ExecArguments == {EmptyDict, DictSet(EmptyDict, "query", "unread")}

\* What serving one POST /tools/execute leaves behind.
ExecRecord(call, outcome) ==
    [called |-> TRUE, call |-> call, outcome |-> outcome,
     registered |-> call.name \in RegisteredNames(server),
     handler |-> HandlerInvoked(server, call.name),
     invoked |-> ExecuteInvokes(server, call, outcome),
     response |-> ExecuteToolEndpoint(server, call, outcome)]

\* MCPServer.register_tool(tool_config)
RegisterTool(spec) ==
    /\ server' = register_tool(server, spec)
    /\ UNCHANGED <<managers, tasks, token_file, credentials_file, timers,
                   deliveries, returned, last_exec>>
    /\ UNCHANGED <<engineVars, reminderVars>>

\* POST /tools/execute {id, name, arguments}
ExecuteTool(id, name, arguments, outcome) ==
    /\ last_exec' = ExecRecord(ClientPayload(name, arguments, id), outcome)
    /\ UNCHANGED authVars
    /\ UNCHANGED <<engineVars, reminderVars>>

InitDisp ==
    /\ InitAuth
    /\ token_file = "none"
    /\ ~credentials_file

NextDisp ==
    \/ \E spec \in RegSpecs : RegisterTool(spec)
    \/ \E t \in TaskIds : AuthInitRequest(t)
    \/ \E id \in ExecIds, name \in ExecNames, arguments \in ExecArguments,
          outcome \in HandlerOutcomes : ExecuteTool(id, name, arguments, outcome)

SpecDisp == InitDisp /\ [][NextDisp]_vars

(***************************************************************************)
(* Registry and dispatcher: claims.                                        *)
(***************************************************************************)

\* C5: execute is total: whatever the name, the arguments and the handler's
\* behaviour, the caller gets a ToolResult and no exception escapes.
C5_ExecuteIsTotal ==
    last_exec.called =>
        /\ ~last_exec.response.escaped
        /\ last_exec.response.status = 200

\* An execute whose handler raised, answered with a ToolResult.
C5_Witness ==
    /\ last_exec.called
    /\ last_exec.invoked
    /\ last_exec.outcome = "raises"
    /\ ~last_exec.response.escaped

\* The calls of a registered tool whose dispatch fails inside the dispatcher:
\* the handler raised, or the handler instance of the prefix is None.
DispatchFailed ==
    /\ last_exec.called
    /\ last_exec.registered
    /\ Route(last_exec.call.name) # "none"
    /\ \/ last_exec.invoked /\ last_exec.outcome = "raises"
       \/ ~last_exec.handler

\* C6: a dispatch that fails inside the dispatcher is reported with
\* success = false and the failure message in error.
C6_DispatchFailureIsReported ==
    DispatchFailed =>
        /\ ~last_exec.response.success
        /\ last_exec.response.error # NoError

\* C7: execute("unknown_tool", {}) answers success = false with the error
\* "Unknown tool: unknown_tool".
C7_UnknownToolError ==
    (last_exec.called /\ last_exec.call.name = "unknown_tool" /\ ~last_exec.registered)
        => /\ ~last_exec.response.escaped
           /\ ~last_exec.response.success
           /\ last_exec.response.error = "Unknown tool: unknown_tool"

\* C7 as amended: execute("unknown_tool", {}) answers, without throwing,
\* success = false with an error that reports the registry miss, "Tool
\* 'unknown_tool' not found"; the text "Unknown tool:" is not in it.
C7_UnknownToolNotFound ==
    (last_exec.called /\ last_exec.call.name = "unknown_tool" /\ ~last_exec.registered)
        => /\ ~last_exec.response.escaped
           /\ ~last_exec.response.success
           /\ last_exec.response.content = ""
           /\ Contains(last_exec.response.error, "Tool 'unknown_tool' not found")
           /\ ~Contains(last_exec.response.error, "Unknown tool:")

\* execute("unknown_tool", {}) has been answered.
C7_Witness ==
    /\ last_exec.called
    /\ last_exec.call.name = "unknown_tool"
    /\ last_exec.call.arguments = EmptyDict
    /\ ~last_exec.registered
    /\ ~last_exec.response.success

\* C8: every response carries the id of its request; a name that is not in
\* the registry gets a normal (HTTP 200) ToolResult with success = false and
\* an error saying the tool was not found, and no handler is invoked.
C8_ResponseCarriesRequestId ==
    last_exec.called =>
        /\ last_exec.response.tool_call_id = last_exec.call.id
        /\ ~last_exec.registered =>
              /\ last_exec.response.status = 200
              /\ ~last_exec.response.success
              /\ Contains(last_exec.response.error, "not found")
              /\ ~last_exec.invoked

\* A name that routes to an initialized handler but is not registered was
\* executed and answered under its own id.
C8_Witness ==
    /\ last_exec.called
    /\ ~last_exec.registered
    /\ last_exec.handler
    /\ last_exec.call.id = "call_456"
    /\ last_exec.response.tool_call_id = "call_456"

\* No two entries of a registry share a name.
OneEntryPerName(reg) ==
    \A i, j \in 1..Len(reg) : reg[i].name = reg[j].name => i = j

EntriesOf(reg, name) == {reg[i] : i \in {j \in 1..Len(reg) : reg[j].name = name}}

\* C9: register is an idempotent upsert keyed by name: the registry holds
\* one entry per name; registering a spec makes it the entry of its name
\* (last writer wins) and touches no other name; registering it again
\* changes nothing; /tools and /health tools_count show the entries.
C9_RegisterIsIdempotentUpsert ==
    /\ OneEntryPerName(server.tools_registry)
    /\ ListTools(server).tools = server.tools_registry
    /\ HealthCheck(server).tools_count = Cardinality(RegisteredNames(server))
    /\ \A spec \in RegSpecs :
          LET after == register_tool(server, spec)
          IN /\ OneEntryPerName(after.tools_registry)
             /\ EntriesOf(after.tools_registry, spec.name) = {spec}
             /\ \A n \in RegisteredNames(server) \ {spec.name} :
                   EntriesOf(after.tools_registry, n) = EntriesOf(server.tools_registry, n)
             /\ RegisteredNames(after) = RegisteredNames(server) \cup {spec.name}
             /\ register_tool(after, spec) = after
             /\ HealthCheck(after).tools_count = Cardinality(RegisteredNames(after))

\* The handlers' definitions were registered and gmail_read_emails was then
\* registered again with another spec, which replaced the first in place.
C9_Witness ==
    /\ server.auth_initialized
    /\ Len(server.tools_registry) > Len(GmailDefs)
    /\ server.tools_registry[1] = ToolDef("gmail_read_emails", "A test tool")

(***************************************************************************)
(* Authorization coordinator: claims.                                      *)
(***************************************************************************)

\* Task t's wait_for_oauth_callback returns in this step.
Returning(t) ==
    /\ tasks[t].pc \in {"signalled", "timedout"}
    /\ tasks'[t].pc \notin {"signalled", "timedout"}

\* The tasks suspended inside wait_for_oauth_callback (AwaitingRedirect).
Awaiting == {t \in TaskIds : tasks[t].pc = "blocked"}

\* C1: at most one session is AwaitingRedirect at any time: a
\* wait_for_oauth_callback started while another one is blocked is rejected
\* and does not replace the pending Event.
C1_SingleAwaitingRedirect ==
    /\ Cardinality(Awaiting) <= 1
    /\ \A t \in Awaiting : server.oauth_event = t

\* C2: one delivered callback result is returned to at most one waiter.
C2_DeliveredToAtMostOneWaiter == \A d \in DOMAIN returned : returned[d] <= 1

\* A delivery has been returned to one waiter while another waiter, which
\* was already waiting when the callback arrived, is still suspended.
C2_Witness ==
    \E d \in DOMAIN returned, t \in TaskIds :
        /\ returned[d] = 1
        /\ tasks[t].pc \in {"blocked", "signalled"}
        /\ tasks[t].startD < d

\* C3: a wait that was blocked (its timeout not yet fired) when a callback
\* was delivered returns a delivered result, not the timeout error.
C3_DeliveryReachesBlockedWaiter ==
    [][\A t \in TaskIds :
         (Returning(t) /\ tasks[t].seen # 0)
             => /\ tasks[t].pc = "signalled"
                /\ Froms(WaitResult(St, t)) # {}]_vars

\* C4: a wait that times out returns the timeout error and leaves the slot
\* cleared (no Event, empty result box); no wait ever returns a callback
\* that was delivered before it started, so a callback delivered after a
\* timeout is never handed to a later wait; a wait that starts owns a fresh
\* session (its own Event, an empty box).
C4_TimeoutClearsSession ==
    [][\A t \in TaskIds :
         /\ Returning(t) =>
               /\ \A d \in Froms(WaitResult(St, t)) : d > tasks[t].startD
               /\ tasks[t].pc = "timedout" =>
                     /\ WaitResult(St, t) = TimeoutResult
                     /\ server'.oauth_results = EmptyDict
                     /\ \/ server'.oauth_event = 0
                        \/ server'.oauth_event = t /\ tasks'[t].pc = "blocked"
         /\ (tasks[t].pc # "blocked" /\ tasks'[t].pc = "blocked") =>
               /\ server'.oauth_event = t
               /\ server'.oauth_results = EmptyDict]_vars

\* One wait has timed out and returned; a callback was delivered afterwards
\* with nobody waiting; a later wait is now being released by a new callback.
C4_Witness ==
    \E t1, t2 \in TaskIds :
        /\ t1 # t2
        /\ tasks[t1].pc = "done"
        /\ tasks[t1].last = "timeout"
        /\ tasks[t2].pc = "signalled"
        /\ tasks[t2].startD > 0
        /\ returned[tasks[t2].startD] = 0
        /\ Froms(server.oauth_results) # {}


(***************************************************************************)
(* Actions of the conversation engine.                                     *)
(***************************************************************************)
ApplyEng(t, e) ==
    /\ conversation_history' = e.history
    /\ turns' = [turns EXCEPT ![t] = e.turn]

\* Requests are numbered in the order they arrive.
IsNextTurn(t) ==
    /\ turns[t].pc = "new"
    /\ \A u \in TurnIds : u < t => turns[u].pc # "new"

InFlight(t) == turns[t].pc \in {"listing", "executing", "streaming"}

\* str(HTTPException(status_code=503, detail="Assistant not initialized"))
NotInitializedError == "503: Assistant not initialized"

\* MainOrchestratorServer.initialize, JarvisAssistant.initialize
Initialize ==
    /\ ~assistant
    /\ assistant' = TRUE
    /\ conversation_history' =
           Append(conversation_history, Message("system", SystemPrompt))
    /\ UNCHANGED <<reminderVars, authVars, last_exec, turns>>

\* A request arrives: the handler runs up to its first await, list_tools.
StartTurn(t, kind, user_input) ==
    LET e == Eng(conversation_history,
                 [turns[t] EXCEPT !.kind = kind, !.user_input = user_input])
    IN /\ IsNextTurn(t)
       /\ ApplyEng(t, IF ~assistant
                      THEN EndTurn(e, "failed", Failure(NotInitializedError))
                      ELSE [e EXCEPT !.history = Append(@, Message("user", user_input)),
                                     !.turn.user_at = Len(e.history) + 1,
                                     !.turn.pc = "listing"])
       /\ UNCHANGED <<reminderVars, authVars, last_exec, assistant>>

\* POST /chat: process_command
ProcessCommand(t, user_input) == StartTurn(t, "chat", user_input)

\* POST /chat/stream: process_command_stream
ProcessCommandStream(t, user_input) == StartTurn(t, "stream", user_input)

\* The model is given no tools when the registry is empty, and then
\* returns no tool calls.
FirstOutputs == {o \in ModelOutputs : server.tools_registry = <<>> => o.tool_calls = <<>>}
LaterOutputs == {o \in ModelOutputs : o.tool_calls = <<>>}

\* GET /tools answers and the turn goes on to its model call.
ListToolsReturn(t) ==
    /\ turns[t].pc = "listing"
    /\ \E out \in FirstOutputs, out2 \in LaterOutputs :
          ApplyEng(t, AfterListTools(Eng(conversation_history, turns[t]),
                                     ListTools(server).tools, out, out2))
    /\ UNCHANGED <<reminderVars, authVars, last_exec, assistant>>

\* An HTTP call of the MCP client fails in transport: the exception leaves
\* the turn.
TransportFails(t) ==
    /\ turns[t].pc \in {"listing", "executing"}
    /\ ApplyEng(t, EndTurn(Eng(conversation_history, turns[t]), "failed",
                           Failure(TransportFailedText)))
    /\ UNCHANGED <<reminderVars, authVars, last_exec, assistant>>

\* POST /tools/execute is served and the turn goes on with the result.
ExecuteToolReturn(t, outcome) ==
    /\ turns[t].pc = "executing"
    /\ LET call == PayloadOf(turns[t].tool_calls[turns[t].i])
           rec == ExecRecord(call, outcome)
           e == Eng(conversation_history, turns[t])
       IN /\ last_exec' = rec
          /\ \E out \in LaterOutputs :
                ApplyEng(t, IF ClientRaises(rec.response)
                            THEN EndTurn(e, "failed", Failure(rec.response.error))
                            ELSE AfterExecuteTool(e, rec.response, out))
    /\ UNCHANGED <<reminderVars, authVars, assistant>>

\* The streaming response asks for the next token.
StreamNext(t) ==
    /\ turns[t].pc = "streaming"
    /\ ApplyEng(t, StreamStep(Eng(conversation_history, turns[t])))
    /\ UNCHANGED <<reminderVars, authVars, last_exec, assistant>>

\* The model stream raises while the next chunk is read.
StreamFails(t) ==
    /\ turns[t].pc = "streaming"
    /\ turns[t].pending # <<>>
    /\ ApplyEng(t, EndTurn(Eng(conversation_history, turns[t]), "failed",
                           Failure(OllamaStreamFailedText)))
    /\ UNCHANGED <<reminderVars, authVars, last_exec, assistant>>

\* The consumer stops iterating: the generator is closed at its yield.
StreamCancel(t) ==
    /\ turns[t].pc = "streaming"
    /\ ApplyEng(t, EndTurn(Eng(conversation_history, turns[t]), "cancelled",
                           NoResult))
    /\ UNCHANGED <<reminderVars, authVars, last_exec, assistant>>

\* A filter that also keeps the User messages.
IsSystem_KeepsUser(m) == m.role \in {"system", "user"}

IsSystem(m) == m.role = "system"

\* JarvisAssistant.clear_conversation, called between turns.
ClearConversation ==
    /\ assistant
    /\ \A t \in TurnIds : ~InFlight(t)
    /\ Len(conversation_history) > 1
    /\ conversation_history' = SelectSeq(conversation_history, IsSystem)
    /\ UNCHANGED <<reminderVars, authVars, last_exec, turns, assistant>>

\* The dispatcher as _initialize_auth leaves it when there is no credentials
\* file: every handler built and its tools registered.
ReadyServer ==
    [RegisterTools([NewServer EXCEPT !.google_auth = 1, !.gmail_tool = TRUE,
                                     !.calendar_tool = TRUE,
                                     !.notification_tool = TRUE,
                                     !.hue_tool = TRUE])
        EXCEPT !.auth_initialized = TRUE]

\* The engine serves requests while the dispatcher's background
\* _initialize_auth has not run yet (empty registry) or has completed.
InitEngine ==
    /\ server \in {NewServer, ReadyServer}
    /\ managers = [m \in TaskIds |-> [locked |-> FALSE, waiters |-> <<>>, authed |-> FALSE]]
    /\ tasks = [t \in TaskIds |-> NewTask]
    /\ token_file = "none"
    /\ credentials_file = FALSE
    /\ timers = <<>>
    /\ deliveries = 0
    /\ returned = [d \in 1..MaxDeliveries |-> 0]
    /\ last_exec = NoExec
    /\ conversation_history = <<>>
    /\ turns = [t \in TurnIds |-> NewTurn]
    /\ assistant = FALSE
    /\ InitReminders

NextEngine ==
    \/ Initialize
    \/ \E t \in TurnIds, u \in ChatInputs : ProcessCommand(t, u)
    \/ \E t \in TurnIds, u \in UserInputs : ProcessCommandStream(t, u)
    \/ \E t \in TurnIds : ListToolsReturn(t)
    \/ \E t \in TurnIds : TransportFails(t)
    \/ \E t \in TurnIds, outcome \in EngineOutcomes : ExecuteToolReturn(t, outcome)
    \/ \E t \in TurnIds : StreamNext(t)
    \/ \E t \in TurnIds : StreamFails(t)
    \/ \E t \in TurnIds : StreamCancel(t)
    \/ ClearConversation

SpecEngine == InitEngine /\ [][NextEngine]_vars


(***************************************************************************)
(* Conversation engine: claims.                                            *)
(***************************************************************************)
Ended(t) == turns[t].pc \in {"done", "failed", "cancelled"}

\* The requests a turn sent are the first ones of its tool_calls list, in
\* the list's order, each once.
SentIsPrefix(t) ==
    /\ Len(turns[t].sent) <= Len(turns[t].tool_calls)
    /\ \A k \in 1..Len(turns[t].sent) :
          turns[t].sent[k] = PayloadOf(turns[t].tool_calls[k])

\* A request is sent only when every earlier result's Tool message is in
\* the history; the one result that may be missing is that of the request
\* in flight, or of the request whose transport failed.
OneAtATime(t) ==
    IF turns[t].pc = "executing"
    THEN turns[t].i = Len(turns[t].sent) /\ turns[t].appended = Len(turns[t].sent) - 1
    ELSE \/ turns[t].appended = Len(turns[t].sent)
         \/ /\ turns[t].pc = "failed"
            /\ turns[t].appended = Len(turns[t].sent) - 1

\* C10 as stated: within one turn the executions sent to the dispatcher are
\* the model's tool_calls list, each call once, in order, one at a time;
\* so a turn that is over has sent the whole list.
C10_ExecutionsEqualToolCalls ==
    \A t \in TurnIds :
        /\ SentIsPrefix(t)
        /\ OneAtATime(t)
        /\ Ended(t) => Len(turns[t].sent) = Len(turns[t].tool_calls)

\* C10, amended: the executions a turn sends are a prefix of the model's
\* tool_calls list, in order, each once, one at a time, with no retry after
\* a failed result; the prefix is the whole list once the tool loop is over
\* (the turn streams or has ended), unless a request of the MCP client
\* failed in transport, which ends the turn with the rest unsent.
C10_ExecutionsArePrefixOfToolCalls ==
    \A t \in TurnIds :
        /\ SentIsPrefix(t)
        /\ OneAtATime(t)
        /\ (turns[t].pc = "streaming" \/ Ended(t))
              /\ turns[t].result.error # TransportFailedText
           => Len(turns[t].sent) = Len(turns[t].tool_calls)

\* A turn that completed after two executions, the first of which failed;
\* both Tool messages are in the history.
C10_Witness ==
    \E t \in TurnIds :
        /\ turns[t].pc = "done"
        /\ Len(turns[t].tool_calls) >= 2
        /\ Len(turns[t].sent) = Len(turns[t].tool_calls)
        /\ turns[t].appended = Len(turns[t].sent)
        /\ \E j, k \in 1..Len(conversation_history) :
              /\ j < k
              /\ conversation_history[j] = Message("tool", "Tool 'unknown_tool' result: ")
              /\ conversation_history[k].role = "tool"
              /\ StartsWith(conversation_history[k].content, "Tool 'gmail_read_emails' result: ")

\* The tool calls of turn t that carry the id of its k-th tool call.
SameIdCalls(t, k) ==
    {j \in 1..Len(turns[t].tool_calls) :
        turns[t].tool_calls[j].id = turns[t].tool_calls[k].id}

\* C11: every Tool message a turn appended answers one ToolCall of that
\* turn's model response, and that ToolCall is the only one of the turn with
\* its id.
C11_ToolMessageHasOneToolCall ==
    \A t \in TurnIds :
        /\ turns[t].appended <= Len(turns[t].tool_calls)
        /\ \A k \in 1..turns[t].appended : Cardinality(SameIdCalls(t, k)) = 1

IsPrefixOf(a, b) ==
    /\ Len(a) <= Len(b)
    /\ \A k \in 1..Len(a) : b[k] = a[k]

\* C12: every step other than clear_conversation leaves the history at
\* least as long, with every message it held at the same index, unchanged.
C12_HistoryIsAppendOnly ==
    [][ClearConversation \/ IsPrefixOf(conversation_history, conversation_history')]_vars

\* Two turns have completed and the history holds their messages after
\* the System message.
C12_Witness ==
    /\ \A t \in {1, 2} : turns[t].pc = "done"
    /\ Len(conversation_history) >= 5
    /\ conversation_history[1].role = "system"
    /\ conversation_history[2].role = "user"

\* Turn t takes the step that appends the Tool message of an execution.
AppendsToolMessage(t) ==
    /\ turns[t].pc = "executing"
    /\ turns'[t].appended = turns[t].appended + 1

\* The Tool message that step appends.
AppendedToolMessage == conversation_history'[Len(conversation_history) + 1]

\* C13: when an execution returns a failed result, the Tool message appended
\* for it carries the result's error message.
C13_FailedResultIsInToolMessage ==
    [][\A t \in TurnIds :
          AppendsToolMessage(t) /\ ~last_exec'.response.success
              => Contains(AppendedToolMessage.content, last_exec'.response.error)]_vars

\* Turn t takes the step that follows an execution answered with a failed
\* ToolResult (the request itself did not fail in transport).
ToolResultFailed(t) ==
    /\ turns[t].pc = "executing"
    /\ turns'[t] # turns[t]
    /\ turns'[t].result.error # TransportFailedText
    /\ ~last_exec'.response.success

\* C14: a failed tool result does not end the turn: its Tool message is
\* appended, the next tool call of the list is sent, and after the last one
\* the summarising model call is made; the turn then completes with the
\* Assistant message appended and returned, and only a failure of that
\* model call can still fail it.
C14_ToolFailureIsNotFatal ==
    [][\A t \in TurnIds :
          ToolResultFailed(t) =>
              /\ turns'[t].appended = turns[t].appended + 1
              /\ IF turns[t].i < Len(turns[t].tool_calls)
                 THEN /\ turns'[t].pc = "executing"
                      /\ turns'[t].i = turns[t].i + 1
                      /\ turns'[t].calls = turns[t].calls
                 ELSE /\ turns'[t].calls = turns[t].calls + 1
                      /\ turns'[t].pc \in {"done", "streaming", "failed"}
                      /\ turns'[t].pc = "failed" =>
                            turns'[t].result.error \in
                                {OllamaFailedText, OllamaStreamFailedText}
                      /\ turns'[t].pc = "done" =>
                            /\ turns'[t].result.status = "ok"
                            /\ conversation_history'[Len(conversation_history')] =
                                  Message("assistant", turns'[t].result.response)]_vars

\* A non-streaming turn whose first execution failed has run its second
\* execution and the summarising call, and returned the Assistant message.
C14_Witness ==
    \E t \in TurnIds :
        /\ turns[t].pc = "done"
        /\ turns[t].kind = "chat"
        /\ turns[t].tool_calls # <<>>
        /\ turns[t].tool_calls[1].name = "unknown_tool"
        /\ turns[t].appended = 2
        /\ turns[t].calls = 2
        /\ turns[t].result.status = "ok"
        /\ conversation_history[Len(conversation_history)].role = "assistant"

ModelFailureTexts == {OllamaFailedText, OllamaStreamFailedText}

\* Turn t takes the step in which one of its model calls raises.
ModelCallFailed(t) ==
    /\ turns[t].pc # "failed"
    /\ turns'[t].pc = "failed"
    /\ turns'[t].result.error \in ModelFailureTexts

\* C15: a model call that fails ends the turn with an error for the caller,
\* and the step writes nothing about the failure into the history: the only
\* message it can append is the Tool message of the execution that came
\* before the call.
C15_ModelFailureIsNotInHistory ==
    [][\A t \in TurnIds :
          ModelCallFailed(t) =>
              /\ turns'[t].result.status = "error"
              /\ IsPrefixOf(conversation_history, conversation_history')
              /\ Len(conversation_history') <= Len(conversation_history) + 1
              /\ \A k \in (Len(conversation_history) + 1)..Len(conversation_history') :
                    /\ turns[t].pc = "executing"
                    /\ conversation_history'[k].role = "tool"
                    /\ ~Contains(conversation_history'[k].content,
                                 turns'[t].result.error)]_vars

\* The first model call of the only turn so far failed: the history holds
\* the System message and the turn's User message, nothing else.
C15_Witness ==
    /\ turns[1].pc = "failed"
    /\ turns[1].result.error = OllamaFailedText
    /\ turns[1].calls = 1
    /\ conversation_history =
          <<Message("system", SystemPrompt), Message("user", turns[1].user_input)>>

\* C16: at most one turn of the assistant is in flight at any time: a
\* request that arrives while a turn is suspended at list_tools, at
\* execute_tool or at a streamed token does not start its own turn.
C16_OneTurnInFlight == Cardinality({t \in TurnIds : InFlight(t)}) <= 1

\* C17: clear_conversation leaves exactly the message that was at index 0,
\* the System message of initialize; no other step ever adds a System
\* message, so the turns that follow append after it.
C17_ClearKeepsSystemMessage ==
    [][/\ ClearConversation =>
             /\ conversation_history[1].role = "system"
             /\ conversation_history' = <<conversation_history[1]>>
       /\ assistant' =>
             /\ conversation_history'[1] = Message("system", SystemPrompt)
             /\ \A k \in 2..Len(conversation_history') :
                   conversation_history'[k].role # "system"]_vars

\* Two turns have completed, with a clear_conversation between them: the
\* history is the System message followed by the second turn's messages.
C17_Witness ==
    /\ \A t \in {1, 2} : turns[t].pc = "done"
    /\ Len(conversation_history) = 3
    /\ conversation_history[1] = Message("system", SystemPrompt)
    /\ conversation_history[2] = Message("user", turns[2].user_input)
    /\ conversation_history[3].role = "assistant"

\* Turn u takes the step in which its token stream ends and its Assistant
\* message is appended.
StreamCompletes(u) ==
    /\ turns[u].pc = "streaming"
    /\ turns'[u].pc = "done"

\* A completed non-streaming turn t and a completed streaming turn u that
\* had the same input and the same model output.
SameTurnBothWays(t, u) ==
    /\ turns'[t].pc = "done" /\ turns'[t].kind = "chat"
    /\ turns'[u].pc = "done" /\ turns'[u].kind = "stream"
    /\ turns'[t].user_input = turns'[u].user_input
    /\ turns'[t].answer = turns'[u].answer

\* C18: with no tool registered, the tokens a streaming turn yields
\* concatenate to the text process_command returns for the same input and
\* model output, and the Assistant message the streaming turn appends is
\* that concatenation.
C18_StreamEqualsNonStreaming ==
    [][server'.tools_registry = <<>> =>
          /\ \A u \in TurnIds :
                StreamCompletes(u) =>
                    conversation_history'[Len(conversation_history')] =
                        Message("assistant", Concat(turns'[u].yielded))
          /\ \A t, u \in TurnIds :
                SameTurnBothWays(t, u) =>
                    Concat(turns'[u].yielded) = turns'[t].result.response]_vars

\* With no tool registered, a non-streaming and a streaming turn on the same
\* input have both completed, the streaming one after yielding two tokens.
C18_Witness ==
    /\ server.tools_registry = <<>>
    /\ \E t, u \in TurnIds :
          /\ turns[t].pc = "done" /\ turns[t].kind = "chat"
          /\ turns[u].pc = "done" /\ turns[u].kind = "stream"
          /\ turns[t].user_input = turns[u].user_input
          /\ Len(turns[u].yielded) = 2
          /\ turns[t].result.response = "Hello"

\* C19: a streaming turn decides on tools as a non-streaming turn does: the
\* first model call of every turn is given the registered tools whenever
\* there are any, whatever the user text, so the model's tool calls are
\* executed the same way in both.
C19_SameToolDecision ==
    \A t \in TurnIds :
        turns[t].calls >= 1 =>
            turns[t].offered = (ListTools(server).tools # <<>>)

\* Turn t takes the step in which its consumer stops iterating.
ConsumerStops(t) ==
    /\ turns[t].pc = "streaming"
    /\ turns'[t].pc = "cancelled"

\* C20: when the consumer of a streaming turn stops iterating, no further
\* token is yielded and the turn is closed as a stream that ended: an
\* Assistant message holding the tokens delivered so far is appended.
C20_CancelledStreamIsClosed ==
    [][\A t \in TurnIds :
          ConsumerStops(t) =>
              /\ turns'[t].yielded = turns[t].yielded
              /\ conversation_history' =
                    Append(conversation_history,
                           Message("assistant", Concat(turns[t].yielded)))]_vars

\* The errors that fail a whole request: the model backend or the
\* dispatcher cannot be reached, or the assistant is not initialized.
WholeRequestFailures ==
    {OllamaFailedText, TransportFailedText, NotInitializedError}

\* C21: a /chat request that failed as a whole (model backend or dispatcher
\* unreachable, assistant not initialized) is answered with a non-2xx
\* response whose body carries the error.
C21_ChatFailureIsNon2xx ==
    \A t \in TurnIds :
        /\ turns[t].kind = "chat"
        /\ turns[t].pc = "failed"
        /\ turns[t].result.error \in WholeRequestFailures
        => /\ turns[t].http.status_code \notin 200..299
           /\ turns[t].http.status_code # 0
           /\ turns[t].http.body.error = turns[t].result.error

\* A history that is the System message followed by (User, Assistant) pairs.
SystemThenPairs(h) ==
    /\ Len(h) % 2 = 1
    /\ h[1].role = "system"
    /\ \A j \in 2..Len(h) : h[j].role = IF j % 2 = 0 THEN "user" ELSE "assistant"

\* Turn t takes the step that completes it, its model having requested no
\* tool call.
CompletesWithoutToolCalls(t) ==
    /\ turns[t].pc # "done"
    /\ turns'[t].pc = "done"
    /\ turns'[t].tool_calls = <<>>

\* C22: a turn that completes without tool calls has appended exactly two
\* messages, its User message followed by its Assistant message; so a
\* history that was [System] followed by k (User, Assistant) pairs when the
\* turn began is [System] followed by k + 1 pairs when it completes, and the
\* turn's first model call received the history up to and including the
\* turn's User message.
C22_NoToolTurnAppendsUserAssistant ==
    [][\A t \in TurnIds :
          CompletesWithoutToolCalls(t) =>
              LET at == turns'[t].user_at
                  h == conversation_history'
              IN /\ Len(h) = at + 1
                 /\ h[at] = Message("user", turns'[t].user_input)
                 /\ h[at + 1] = Message("assistant", turns'[t].result.response)
                 /\ SystemThenPairs(SubSeq(h, 1, at - 1)) => SystemThenPairs(h)
                 /\ turns'[t].contexts[1] = SubSeq(h, 1, at)]_vars

\* The roles of the messages of a history, in order.
Roles(h) == [k \in 1..Len(h) |-> h[k].role]

\* The first turn on a freshly initialized assistant was a process_command
\* whose model response requested exactly one tool call; it has completed,
\* no other request has arrived and the history has not been cleared.
OneToolCallTurnCompleted ==
    /\ turns[1].pc = "done"
    /\ turns[1].kind = "chat"
    /\ Len(turns[1].tool_calls) = 1
    /\ \A t \in TurnIds \ {1} : turns[t].pc = "new"
    /\ Len(conversation_history) > 1

\* C23: after process_command completes a turn with exactly one tool call
\* on a freshly initialized assistant, the history holds five messages:
\* System, User, Assistant, Tool, Assistant.
C23_OneToolCallTurnHasFiveMessages ==
    OneToolCallTurnCompleted =>
        Roles(conversation_history) = <<"system", "user", "assistant", "tool", "assistant">>

\* The model calls a process_command turn may have made: one, and a second
\* one when the first returned tool calls.
CallsOf(tr) == IF tr.tool_calls = <<>> THEN 1 ELSE 2

\* Turn t takes the step in which process_command makes its second model
\* call.
SummaryCall(t) ==
    /\ turns'[t].kind = "chat"
    /\ turns[t].calls = 1
    /\ turns'[t].calls = 2

\* The history as it is when that call is made: the step appends the
\* Assistant message after the call when the call succeeds.
HistoryAtSummaryCall(t) ==
    IF turns'[t].pc = "done"
    THEN SubSeq(conversation_history', 1, Len(conversation_history') - 1)
    ELSE conversation_history'

\* The Tool messages a history holds after index at.
ToolMessagesAfter(h, at) == {k \in (at + 1)..Len(h) : h[k].role = "tool"}

C25_IdleHistoryIsClosed ==
    (assistant /\ \A t \in TurnIds : ~InFlight(t)) =>
        conversation_history[Len(conversation_history)].role \in {"system", "assistant"}

\* C26: the map a wait_for_oauth_callback returns is {code, state} or
\* {error}, whatever callbacks arrived during the wait: it never holds both
\* a code and an error.
C26_ResultIsCodeOrError ==
    [][\A t \in TaskIds :
          Returning(t) =>
              /\ DOMAIN WaitResult(St, t) \in {{"code", "state"}, {"error"}}
              /\ ~({"code", "error"} \subseteq DOMAIN WaitResult(St, t))]_vars

\* A callback is delivered while no Event is registered.
DeliveryWithoutWaiter ==
    /\ deliveries' = deliveries + 1
    /\ server.oauth_event = 0

\* Task t enters wait_for_oauth_callback.
WaitStarts(t) ==
    /\ tasks[t].pc \notin {"blocked", "signalled", "timedout"}
    /\ tasks'[t].pc \in {"blocked", "signalled", "timedout"}

\* C27: a callback delivered while no waiter is registered is stored in
\* oauth_results and signals nothing; a wait that starts afterwards empties
\* the box and blocks, is released only by a callback delivered after it
\* started or by its timeout, and never returns the earlier delivery.
C27_LateWaiterMissesStoredCallback ==
    [][/\ DeliveryWithoutWaiter =>
             /\ deliveries' \in Froms(server'.oauth_results)
             /\ \A t \in TaskIds : tasks'[t].pc = tasks[t].pc
       /\ \A t \in TaskIds :
             /\ WaitStarts(t) =>
                   /\ tasks'[t].pc = "blocked"
                   /\ server'.oauth_results = EmptyDict
             /\ (tasks[t].pc = "blocked" /\ tasks'[t].pc # "blocked") =>
                   \/ tasks'[t].pc = "timedout"
                   \/ /\ tasks'[t].pc = "signalled"
                      /\ deliveries' = deliveries + 1
                      /\ deliveries' > tasks[t].startD
             /\ Returning(t) =>
                   \A d \in Froms(WaitResult(St, t)) : d > tasks[t].startD]_vars

\* A callback was delivered before any wait had started, and the first wait
\* is now blocked on an empty box, the delivery returned to nobody.
C27_Witness ==
    \E t \in TaskIds :
        /\ tasks[t].pc = "blocked"
        /\ \A u \in TaskIds \ {t} : tasks[u].pc = "new"
        /\ tasks[t].startD >= 1
        /\ \A d \in 1..tasks[t].startD : returned[d] = 0
        /\ server.oauth_results = EmptyDict
        /\ server.oauth_event = t

\* The handler of POST /auth/init, task t, returns its response.
AuthInitResponds(t) ==
    /\ tasks'[t].kind = "auth_init"
    /\ tasks[t].pc # "done"
    /\ tasks'[t].pc = "done"

\* C28: POST /auth/init answers {status: "success"} only when the
\* initialization completed: at that response auth_initialized is true and
\* the handlers' tools are in the registry; a failed initialization is
\* answered with an error.
C28_AuthInitSuccessMeansInitialized ==
    [][\A t \in TaskIds :
          (AuthInitResponds(t) /\ tasks'[t].resp = "success") =>
              /\ server'.auth_initialized
              /\ server'.hue_tool
              /\ RegisteredNames(server') # {}]_vars

(***************************************************************************)
(* Actions of the NotificationClient.                                      *)
(***************************************************************************)

\* schedule_reminder up to the store: a remind_at that is not in the future
\* is notified at once, any other is put into the map.
ScheduleReminder(id, remind_at) ==
    /\ caller.pc = "idle"
    /\ reminders[id].fate = "unused"
    /\ IF remind_at <= now
       THEN /\ reminders' = [reminders EXCEPT ![id].fate = "immediate"]
            /\ UNCHANGED <<scheduled_reminders, caller>>
       ELSE /\ reminders' = [reminders EXCEPT ![id].fate = "scheduled"]
            /\ scheduled_reminders' = SetItem(scheduled_reminders, id, remind_at)
            /\ caller' = [pc |-> "stored", id |-> id]
    /\ UNCHANGED <<running, reminder_thread, now>>
    /\ UNCHANGED <<authVars, last_exec, engineVars>>

\* schedule_reminder from `if not self.running` to its return.
ScheduleReturn ==
    /\ caller.pc = "stored"
    /\ LET st == IF ~running THEN StartReminderThread(running, reminder_thread)
                 ELSE [running |-> running, thread |-> reminder_thread]
       IN /\ running' = st.running
          /\ reminder_thread' = st.thread
    /\ caller' = [pc |-> "idle", id |-> 0]
    /\ UNCHANGED <<scheduled_reminders, now, reminders>>
    /\ UNCHANGED <<authVars, last_exec, engineVars>>

\* cancel_reminder(id), called once for a reminder that was scheduled.
CancelReminder(id) ==
    /\ caller.pc = "idle"
    /\ reminders[id].fate = "scheduled"
    /\ reminders[id].cancelled = "no"
    /\ IF HasKey(scheduled_reminders, id)
       THEN /\ scheduled_reminders' = DelItem(scheduled_reminders, id)
            /\ reminders' = [reminders EXCEPT ![id].cancelled = "true"]
       ELSE /\ reminders' = [reminders EXCEPT ![id].cancelled = "false"]
            /\ UNCHANGED scheduled_reminders
    /\ UNCHANGED <<running, reminder_thread, caller, now>>
    /\ UNCHANGED <<authVars, last_exec, engineVars>>

\* while self.running and self.scheduled_reminders:
WorkerTest ==
    /\ reminder_thread.pc = "test"
    /\ reminder_thread' = WorkerLoopTest(running, scheduled_reminders, now)
    /\ UNCHANGED <<scheduled_reminders, running, caller, now, reminders>>
    /\ UNCHANGED <<authVars, last_exec, engineVars>>

\* for reminder_id, reminder in self.scheduled_reminders.items():
WorkerNext ==
    /\ reminder_thread.pc = "next"
    /\ reminder_thread' = WorkerIterNext(reminder_thread, scheduled_reminders)
    /\ UNCHANGED <<scheduled_reminders, running, caller, now, reminders>>
    /\ UNCHANGED <<authVars, last_exec, engineVars>>

\* asyncio.run(self.send_notification(...)); expired_reminders.append(id)
WorkerSend ==
    /\ reminder_thread.pc = "send"
    /\ reminders' = [reminders EXCEPT ![reminder_thread.item.id].sent = @ + 1]
    /\ reminder_thread' = [reminder_thread EXCEPT
                             !.pc = "next",
                             !.expired = Append(@, reminder_thread.item.id),
                             !.item = NoItem]
    /\ UNCHANGED <<scheduled_reminders, running, caller, now>>
    /\ UNCHANGED <<authVars, last_exec, engineVars>>

\* The removal loop, then time.sleep(30).
WorkerRemove ==
    /\ reminder_thread.pc = "remove"
    /\ LET r == RemoveExpired(scheduled_reminders, reminder_thread.expired)
       IN /\ scheduled_reminders' = r.dict
          /\ reminder_thread' = IF r.raised THEN WorkerError
                                ELSE [NoThread EXCEPT !.pc = "sleep"]
    /\ UNCHANGED <<running, caller, now, reminders>>
    /\ UNCHANGED <<authVars, last_exec, engineVars>>

\* time.sleep returns.
WorkerWake ==
    /\ reminder_thread.pc \in {"sleep", "error_sleep"}
    /\ reminder_thread' = [NoThread EXCEPT !.pc = "test"]
    /\ UNCHANGED <<scheduled_reminders, running, caller, now, reminders>>
    /\ UNCHANGED <<authVars, last_exec, engineVars>>

\* self.running = False, after the loop.
WorkerStop ==
    /\ reminder_thread.pc = "exiting"
    /\ running' = FALSE
    /\ reminder_thread' = [NoThread EXCEPT !.pc = "stopped"]
    /\ UNCHANGED <<scheduled_reminders, caller, now, reminders>>
    /\ UNCHANGED <<authVars, last_exec, engineVars>>

\* _reminder_worker returns and the thread ends.
WorkerEnd ==
    /\ reminder_thread.pc = "stopped"
    /\ reminder_thread' = [NoThread EXCEPT !.pc = "dead"]
    /\ UNCHANGED <<scheduled_reminders, running, caller, now, reminders>>
    /\ UNCHANGED <<authVars, last_exec, engineVars>>

\* Time passes.
Tick ==
    /\ now < MaxTime
    /\ now' = now + 1
    /\ UNCHANGED <<scheduled_reminders, running, reminder_thread, caller, reminders>>
    /\ UNCHANGED <<authVars, last_exec, engineVars>>

WorkerStep ==
    \/ WorkerTest
    \/ WorkerNext
    \/ WorkerSend
    \/ WorkerRemove
    \/ WorkerWake
    \/ WorkerStop
    \/ WorkerEnd

InitRemind ==
    /\ InitAuth
    /\ token_file = "none"
    /\ ~credentials_file

NextRemind ==
    \/ \E id \in ReminderIds, remind_at \in RemindTimes : ScheduleReminder(id, remind_at)
    \/ ScheduleReturn
    \/ \E id \in ReminderIds : CancelReminder(id)
    \/ WorkerTest
    \/ WorkerNext
    \/ WorkerSend
    \/ WorkerRemove
    \/ WorkerWake
    \/ WorkerStop
    \/ WorkerEnd
    \/ Tick

SpecRemind == InitRemind /\ [][NextRemind]_vars

\* The worker thread and the event-loop thread are scheduled fairly and the
\* clock advances.
SpecRemindFair ==
    /\ SpecRemind
    /\ WF_vars(WorkerStep)
    /\ WF_vars(ScheduleReturn)
    /\ WF_vars(Tick)

(***************************************************************************)
(* NotificationClient: claims.                                             *)
(***************************************************************************)

\* Reminder id is in the map.
Pending(id) == HasKey(scheduled_reminders, id)

\* C29: every reminder accepted with a future remind_at and not cancelled is
\* eventually sent: whatever the interleaving of schedule_reminder with the
\* worker, a live worker is left that fires it once its time has passed.
C29_AcceptedReminderIsSent ==
    \A id \in ReminderIds :
        Pending(id) ~> (reminders[id].sent > 0 \/ reminders[id].cancelled = "true")

\* The worker sends reminder id in this step.
Sends(id) == reminders'[id].sent = reminders[id].sent + 1

\* C30: a scheduled reminder is sent at most once, and never after
\* cancel_reminder returned true for it.
C30_SentAtMostOnceAndNotAfterCancel ==
    [][\A id \in ReminderIds :
          Sends(id) =>
              /\ reminders[id].sent = 0
              /\ reminders[id].cancelled # "true"]_vars

====
